---- MODULE Spec2Model ----
(***************************************************************************)
(* Model of lib/authorise.js of node-oauth2-server: the connect middleware *)
(* authorise.handle, with its two helpers getBearerToken (extraction of    *)
(* the bearer token from the request) and validateAccessToken (check of    *)
(* the record the model's getAccessToken returned).                        *)
(*                                                                         *)
(* JavaScript values are represented as follows.                           *)
(*   - a string is the sequence of its characters (one-character TLA+      *)
(*     strings), so that the regular expression can be run on it;          *)
(*   - `undefined` in a string position is the sequence Undefined, which   *)
(*     no string equals (its only element is not a character);             *)
(*   - objects (token records, errors, req.user) are records; `null` and   *)
(*     a missing argument in an object position are the record Null;       *)
(*   - a time (Date) is an integer; an absent `expires` is NoExpires.      *)
(***************************************************************************)
EXTENDS Integers, Sequences, FiniteSets, TLC

VARIABLES
    req,          \* req[r]: the request object r (header, query, body, method, user)
    now,          \* this.now of the oauth instance
    pc,           \* pc[r]: where request r is in authorise.handle
    bearerToken,  \* bearerToken[r]: the token authorise.handle passed to the lookup
    lookupResult, \* lookupResult[r]: the (err, token) the lookup called back with
    nexts,        \* nexts[r]: the arguments of the calls of next, in order
    log,          \* log[r]: the effects of authorise.handle on r, in order
    cancelled,    \* cancelled[r]: the host aborted r while its lookup was pending
    entry,        \* entry[r]: the request object as authorise.handle received it
    nowAtEntry,   \* nowAtEntry[r]: this.now when authorise.handle was called for r
    runs          \* runs[r]: the outcomes of the earlier runs of authorise.handle on r

vars == <<req, now, pc, bearerToken, lookupResult, nexts, log, cancelled, entry,
          nowAtEntry, runs>>

-----------------------------------------------------------------------------
(* Bounds of the model *)

\* this.now ranges over 1..MaxTime
MaxTime == 3

\* authorise.handle runs at most MaxRuns times on one request object
MaxRuns == 2

-----------------------------------------------------------------------------
(* JavaScript values *)

Undefined == <<"undefined">>
Null == [null |-> TRUE]
False == "<false>"
NoExpires == -1

EmptyString == <<>>

\* ToBoolean of a string-or-undefined value: undefined and "" are falsy
Truthy(v) == v # Undefined /\ v # EmptyString

\* typeof v !== 'undefined'
Defined(v) == v # Undefined

\* a || b on string-or-undefined values
Or(a, b) == IF Truthy(a) THEN a ELSE b

\* ToBoolean of an object-or-null value
TruthyObj(o) == o # Null

\* new OAuth2Error(error, description, err)
OAuth2Error(error, description, err) ==
    [error |-> error, description |-> description, cause |-> err]

-----------------------------------------------------------------------------
(* Characters and the regular expression /Bearer\s(\S+)/ *)

BearerWord == <<"B", "e", "a", "r", "e", "r">>

\* the characters \s matches, among those the model uses
WhiteSpace == {" ", "\t"}

\* the pattern matches with "Bearer" starting at position i of s
MatchesAt(s, i) ==
    /\ i + 7 <= Len(s)
    /\ SubSeq(s, i, i + 5) = BearerWord
    /\ s[i + 6] \in WhiteSpace
    /\ s[i + 7] \notin WhiteSpace

\* mutant of RunEnd: (\S) instead of (\S+), the group takes one character
RunEnd_OneChar(s, j) == j

\* the end of the greedy run of \S characters that starts at position j
RunEnd(s, j) ==
    CHOOSE k \in j..Len(s) :
        /\ \A m \in j..k : s[m] \notin WhiteSpace
        /\ (k = Len(s) \/ s[k + 1] \in WhiteSpace)

\* s.match(/Bearer\s(\S+)/): Null, or <<whole match, group 1>> of the leftmost match
RegexMatch(s) ==
    LET starts == {i \in 1..Len(s) : MatchesAt(s, i)}
    IN  IF starts = {} THEN <<>>
        ELSE LET i == CHOOSE x \in starts : \A y \in starts : x <= y
                 e == RunEnd(s, i + 7)
             IN  <<SubSeq(s, i, e), SubSeq(s, i + 7, e)>>

-----------------------------------------------------------------------------
(* The requests and the store the model draws from *)

SP == <<" ">>
TAB == <<"\t">>

\* token strings
T1 == <<"a", "b">>
T2 == <<"c">>
T3 == <<"d">>
T4 == <<"x", "y", "z">>

\* the store behind this.model.getAccessToken: the record saved for a token, or Null
StoredToken(t) ==
    CASE t = T1 -> [expires |-> 2, user_id |-> "u1"]
      [] t = T2 -> [expires |-> 3, user_id |-> "u2"]
      [] t = T3 -> [expires |-> NoExpires, user_id |-> "u3"]
      [] OTHER -> Null

\* values of the Authorization header: req.get('Authorization')
Headers ==
    { Undefined,
      EmptyString,
      BearerWord \o SP \o T1,                          \* "Bearer ab"
      BearerWord \o SP \o T2,                          \* "Bearer c"
      BearerWord \o SP \o T3,                          \* "Bearer d"
      BearerWord \o SP \o T4,                          \* "Bearer xyz"
      <<"b", "e", "a", "r", "e", "r">> \o SP \o T1,    \* "bearer ab"
      <<"B", "a", "s", "i", "c">> \o SP \o T4,         \* "Basic xyz"
      BearerWord \o TAB \o T1,                         \* "Bearer\tab"
      <<"X">> \o SP \o BearerWord \o SP \o T1,         \* "X Bearer ab"
      BearerWord \o SP \o T1 \o SP \o T2,              \* "Bearer ab c"
      BearerWord \o SP \o SP \o T1,                    \* "Bearer  ab"
      BearerWord \o SP,                                \* "Bearer "
      BearerWord \o T1 }                               \* "Bearerab"

\* values of req.query.access_token and of req.body.access_token
QueryTokens == {Undefined, EmptyString, T1, T3}
BodyTokens == {Undefined, EmptyString, T2, T4}

\* values of req.method
Methods == {"GET", "POST", "PUT"}

\* values of req.user before the middleware runs
InitialUsers == {Null, [id |-> "u0"]}

\* errors the lookup can call back with
LookupErrors == {[message |-> "ECONNREFUSED"]}

-----------------------------------------------------------------------------
(* authorise.getBearerToken: the arguments it calls its callback with *)

OnlyOneMethod ==
    OAuth2Error("invalid_request",
        "Only one method may be used to authenticate at a time (Auth header, GET or POST).",
        Null)
TokenNotFound ==
    OAuth2Error("invalid_request", "The access token was not found", Null)
MalformedHeader ==
    OAuth2Error("invalid_request", "Malformed auth header", Null)
MustBePost ==
    OAuth2Error("invalid_request",
        "When putting the token in the body, the method must be POST.", Null)

\* mutant of methodsUsed: the body parameter is not counted
methodsUsed_NoBody(q) ==
    LET Used(v) == IF Defined(v) THEN 1 ELSE 0
    IN  Used(q.header) + Used(q.query)

\* (typeof headerToken !== 'undefined') + (typeof getToken !== 'undefined')
\*   + (typeof postToken !== 'undefined')
methodsUsed(q) ==
    LET Used(v) == IF Defined(v) THEN 1 ELSE 0
    IN  Used(q.header) + Used(q.query) + Used(q.body)

\* mutant of methodsUsedError: the count 0 is not checked
methodsUsedError_NoZero(q) ==
    IF methodsUsed(q) > 1 THEN OnlyOneMethod ELSE Null

\* "Check exactly one method was used": the error of that check, or Null
methodsUsedError(q) ==
    IF methodsUsed(q) > 1 THEN OnlyOneMethod
    ELSE IF methodsUsed(q) = 0 THEN TokenNotFound
    ELSE Null

\* "Header": the error of that block (or Null) and headerToken after it
headerBlock(headerToken) ==
    IF Truthy(headerToken)
    THEN LET matches == RegexMatch(headerToken)
         IN  IF matches = <<>>
             THEN [err |-> MalformedHeader, headerToken |-> headerToken]
             ELSE [err |-> Null, headerToken |-> matches[2]]
    ELSE [err |-> Null, headerToken |-> headerToken]

\* mutant of postBlock: the method is not checked
postBlock_AnyMethod(postToken, method) == Null

\* "POST": the error of that block, or Null
postBlock(postToken, method) ==
    IF Truthy(postToken) /\ method # "POST" THEN MustBePost ELSE Null

getBearerToken(q) ==
    LET h == headerBlock(q.header)
    IN  IF TruthyObj(methodsUsedError(q)) THEN
            [err |-> methodsUsedError(q), bearerToken |-> Undefined]
        ELSE IF TruthyObj(h.err) THEN
            [err |-> h.err, bearerToken |-> Undefined]
        ELSE IF TruthyObj(postBlock(q.body, q.method)) THEN
            [err |-> postBlock(q.body, q.method), bearerToken |-> Undefined]
        ELSE
            [err |-> Null, bearerToken |-> Or(Or(h.headerToken, q.body), q.query)]

-----------------------------------------------------------------------------
(* authorise.validateAccessToken: its calls of next (the error passed,     *)
(* Null for none), the value it leaves in req.user, and its effects in     *)
(* order                                                                   *)

InvalidToken ==
    OAuth2Error("invalid_grant", "The access token provided is invalid.", Null)
ExpiredToken ==
    OAuth2Error("invalid_grant", "The access token provided has expired.", Null)

\* mutant of Earlier: token.expires <= this.now
Earlier_OrEqual(expires, t) == expires # NoExpires /\ expires <= t

\* token.expires < this.now; a comparison with undefined is false
Earlier(expires, t) == expires # NoExpires /\ expires < t

\* !token.expires
NoExpiry(token) == token.expires = NoExpires

\* mutant of ExposedUser: { id: token.id }
ExposedUser_WrongField(token) == [id |-> "undefined"]

\* { id: token.user_id }
ExposedUser(token) == [id |-> token.user_id]

\* mutant of validateAccessToken: the return before next(expired) is missing
validateAccessToken_NoReturn(token, user, t) ==
    IF ~TruthyObj(token) THEN
        [nexts |-> <<InvalidToken>>, user |-> user, log |-> <<"next">>]
    ELSE IF NoExpiry(token) \/ Earlier(token.expires, t) THEN
        [nexts |-> <<ExpiredToken, Null>>, user |-> ExposedUser(token),
         log |-> <<"next", "req.user", "next">>]
    ELSE
        [nexts |-> <<Null>>, user |-> ExposedUser(token), log |-> <<"req.user", "next">>]

\* mutant of validateAccessToken: a missing record is reported as expired
validateAccessToken_NullAsExpired(token, user, t) ==
    IF ~TruthyObj(token) \/ NoExpiry(token) \/ Earlier(token.expires, t) THEN
        [nexts |-> <<ExpiredToken>>, user |-> user, log |-> <<"next">>]
    ELSE
        [nexts |-> <<Null>>, user |-> ExposedUser(token), log |-> <<"req.user", "next">>]

\* mutant of validateAccessToken: req.user is set before the expiry is checked
validateAccessToken_UserFirst(token, user, t) ==
    IF ~TruthyObj(token) THEN
        [nexts |-> <<InvalidToken>>, user |-> user, log |-> <<"next">>]
    ELSE IF NoExpiry(token) \/ Earlier(token.expires, t) THEN
        [nexts |-> <<ExpiredToken>>, user |-> ExposedUser(token), log |-> <<"req.user", "next">>]
    ELSE
        [nexts |-> <<Null>>, user |-> ExposedUser(token), log |-> <<"req.user", "next">>]

\* mutant of validateAccessToken: a request that already has a req.user is refused
validateAccessToken_RefuseUser(token, user, t) ==
    IF ~TruthyObj(token) \/ TruthyObj(user) THEN
        [nexts |-> <<InvalidToken>>, user |-> user, log |-> <<"next">>]
    ELSE IF NoExpiry(token) \/ Earlier(token.expires, t) THEN
        [nexts |-> <<ExpiredToken>>, user |-> user, log |-> <<"next">>]
    ELSE
        [nexts |-> <<Null>>, user |-> ExposedUser(token), log |-> <<"req.user", "next">>]

validateAccessToken(token, user, t) ==
    IF ~TruthyObj(token) THEN
        [nexts |-> <<InvalidToken>>, user |-> user, log |-> <<"next">>]
    ELSE IF NoExpiry(token) \/ Earlier(token.expires, t) THEN
        [nexts |-> <<ExpiredToken>>, user |-> user, log |-> <<"next">>]
    ELSE
        [nexts |-> <<Null>>, user |-> ExposedUser(token), log |-> <<"req.user", "next">>]

\* mutant of getAccessTokenCallback: the error is ignored when a record came with it
getAccessTokenCallback_RecordFirst(err, token, user, t) ==
    IF TruthyObj(err) /\ ~TruthyObj(token)
    THEN [nexts |-> <<OAuth2Error("server_error", False, err)>>,
          user |-> user, log |-> <<"next">>]
    ELSE validateAccessToken(token, user, t)

\* the callback function (err, token) that authorise.handle passes to getAccessToken
getAccessTokenCallback(err, token, user, t) ==
    IF TruthyObj(err)
    THEN [nexts |-> <<OAuth2Error("server_error", False, err)>>,
          user |-> user, log |-> <<"next">>]
    ELSE validateAccessToken(token, user, t)

-----------------------------------------------------------------------------
(* The middleware as a state machine.  authorise.handle runs in two steps: *)
(* Handle(r), from its call up to the call of this.model.getAccessToken    *)
(* (getBearerToken calls back synchronously), and LookupCallback(r), the   *)
(* callback passed to getAccessToken.                                      *)

Requests == DOMAIN pc

\* the requests a host can hand to the middleware
RequestObjects ==
    [header : Headers, query : QueryTokens, body : BodyTokens,
     method : Methods, user : InitialUsers]

\* the lookup has not called back
NoLookupResult == [err |-> Null, token |-> Null]

\* the requests R, drawn from the request objects Q, before authorise.handle runs
InitWith(R, Q) ==
    /\ req \in [R -> Q]
    /\ now \in 1..MaxTime
    /\ pc = [r \in R |-> "Start"]
    /\ bearerToken = [r \in R |-> Undefined]
    /\ lookupResult = [r \in R |-> NoLookupResult]
    /\ nexts = [r \in R |-> <<>>]
    /\ log = [r \in R |-> <<>>]
    /\ cancelled = [r \in R |-> FALSE]
    /\ entry = req
    /\ nowAtEntry = [r \in R |-> now]
    /\ runs = [r \in R |-> <<>>]

Init == InitWith({1}, RequestObjects)

\* mutant of Handle: the return before next(err) is missing, the lookup follows
Handle_NoReturn(r) ==
    /\ pc[r] = "Start"
    /\ LET got == getBearerToken(req[r])
       IN  IF TruthyObj(got.err)
           THEN /\ nexts' = [nexts EXCEPT ![r] = Append(@, got.err)]
                /\ log' = [log EXCEPT ![r] = @ \o <<"next", "getAccessToken">>]
                /\ pc' = [pc EXCEPT ![r] = "Validating"]
                /\ bearerToken' = [bearerToken EXCEPT ![r] = got.bearerToken]
           ELSE /\ bearerToken' = [bearerToken EXCEPT ![r] = got.bearerToken]
                /\ log' = [log EXCEPT ![r] = Append(@, "getAccessToken")]
                /\ pc' = [pc EXCEPT ![r] = "Validating"]
                /\ UNCHANGED nexts
    /\ entry' = [entry EXCEPT ![r] = req[r]]
    /\ nowAtEntry' = [nowAtEntry EXCEPT ![r] = now]
    /\ UNCHANGED <<req, now, lookupResult, cancelled, runs>>

\* mutant of Handle: the token is kept in the oauth instance, shared by all requests
Handle_SharedToken(r) ==
    /\ pc[r] = "Start"
    /\ LET got == getBearerToken(req[r])
       IN  IF TruthyObj(got.err)
           THEN /\ nexts' = [nexts EXCEPT ![r] = Append(@, got.err)]
                /\ log' = [log EXCEPT ![r] = Append(@, "next")]
                /\ pc' = [pc EXCEPT ![r] = "Rejected"]
                /\ UNCHANGED bearerToken
           ELSE /\ bearerToken' = [x \in DOMAIN bearerToken |-> got.bearerToken]
                /\ log' = [log EXCEPT ![r] = Append(@, "getAccessToken")]
                /\ pc' = [pc EXCEPT ![r] = "Validating"]
                /\ UNCHANGED nexts
    /\ entry' = [entry EXCEPT ![r] = req[r]]
    /\ nowAtEntry' = [nowAtEntry EXCEPT ![r] = now]
    /\ UNCHANGED <<req, now, lookupResult, cancelled, runs>>

\* authorise.handle(req, res, next) up to the lookup
Handle(r) ==
    /\ pc[r] = "Start"
    /\ LET got == getBearerToken(req[r])
       IN  IF TruthyObj(got.err)
           THEN /\ nexts' = [nexts EXCEPT ![r] = Append(@, got.err)]
                /\ log' = [log EXCEPT ![r] = Append(@, "next")]
                /\ pc' = [pc EXCEPT ![r] = "Rejected"]
                /\ UNCHANGED bearerToken
           ELSE /\ bearerToken' = [bearerToken EXCEPT ![r] = got.bearerToken]
                /\ log' = [log EXCEPT ![r] = Append(@, "getAccessToken")]
                /\ pc' = [pc EXCEPT ![r] = "Validating"]
                /\ UNCHANGED nexts
    /\ entry' = [entry EXCEPT ![r] = req[r]]
    /\ nowAtEntry' = [nowAtEntry EXCEPT ![r] = now]
    /\ UNCHANGED <<req, now, lookupResult, cancelled, runs>>

\* what this.model.getAccessToken(bearerToken, cb) can call back with
LookupOutcomes(t) ==
    {[err |-> Null, token |-> StoredToken(t)]}
      \cup [err : LookupErrors, token : {Null, StoredToken(t)}]

\* the lookup calls back: this.model.getAccessToken's callback runs
LookupCallback(r) ==
    /\ pc[r] = "Validating"
    /\ \E res \in LookupOutcomes(bearerToken[r]) :
        LET v == getAccessTokenCallback(res.err, res.token, req[r].user, now)
        IN  /\ lookupResult' = [lookupResult EXCEPT ![r] = res]
            /\ req' = [req EXCEPT ![r].user = v.user]
            /\ nexts' = [nexts EXCEPT ![r] = @ \o v.nexts]
            /\ log' = [log EXCEPT ![r] = @ \o v.log]
            /\ pc' = [pc EXCEPT ![r] =
                         IF TruthyObj(v.nexts[1]) THEN "Rejected" ELSE "Admitted"]
    /\ UNCHANGED <<now, bearerToken, cancelled, entry, nowAtEntry, runs>>

\* the host aborts request r while its lookup is pending; authorise.handle
\* registers no handler for it, so nothing of the middleware changes
Cancel(r) ==
    /\ pc[r] = "Validating"
    /\ ~cancelled[r]
    /\ cancelled' = [cancelled EXCEPT ![r] = TRUE]
    /\ UNCHANGED <<req, now, pc, bearerToken, lookupResult, nexts, log, entry,
                   nowAtEntry, runs>>

Next ==
    \/ \E r \in Requests : Handle(r)
    \/ \E r \in Requests : LookupCallback(r)
    \/ \E r \in Requests : Cancel(r)

Spec == Init /\ [][Next]_vars

\* the lookup calls back, and the host runs the middleware it was handed
FairSpec ==
    /\ Spec
    /\ \A r \in {1} : WF_vars(Handle(r)) /\ WF_vars(LookupCallback(r))

\* the host sets this.now of the instance to a later time
SetNow ==
    /\ \E t \in 1..MaxTime :
        /\ t > now
        /\ now' = t
    /\ UNCHANGED <<req, pc, bearerToken, lookupResult, nexts, log, cancelled, entry,
                   nowAtEntry, runs>>

TimeNext == Next \/ SetNow

\* one request, with this.now changing while it is handled
TimeSpec == Init /\ [][TimeNext]_vars

\* the host calls authorise.handle again on the request object r, once the
\* run before has ended; req keeps the req.user that run left
Rerun(r) ==
    /\ pc[r] \in {"Admitted", "Rejected"}
    /\ Len(runs[r]) + 1 < MaxRuns
    /\ runs' = [runs EXCEPT ![r] =
                   Append(@, [pc |-> pc[r], nexts |-> nexts[r], user |-> req[r].user,
                              lookupResult |-> lookupResult[r]])]
    /\ pc' = [pc EXCEPT ![r] = "Start"]
    /\ bearerToken' = [bearerToken EXCEPT ![r] = Undefined]
    /\ lookupResult' = [lookupResult EXCEPT ![r] = NoLookupResult]
    /\ nexts' = [nexts EXCEPT ![r] = <<>>]
    /\ log' = [log EXCEPT ![r] = <<>>]
    /\ cancelled' = [cancelled EXCEPT ![r] = FALSE]
    /\ UNCHANGED <<req, now, entry, nowAtEntry>>

RerunNext == Next \/ \E r \in Requests : Rerun(r)

\* one request object, handled MaxRuns times in sequence
RerunSpec == Init /\ [][RerunNext]_vars

\* requests handed to one oauth instance at the same time
ConcurrentRequestObjects ==
    [header : {Undefined, BearerWord \o SP \o T1, BearerWord \o SP \o T2,
               <<"B", "a", "s", "i", "c">> \o SP \o T4},
     query : {Undefined, T3}, body : {Undefined}, method : {"GET"}, user : {Null}]

\* two requests in flight on the same instance, their steps interleaved
ConcInit == InitWith({1, 2}, ConcurrentRequestObjects)

ConcSpec == ConcInit /\ [][Next]_vars

-----------------------------------------------------------------------------
(* Vocabulary of the properties *)

Done(r) == pc[r] \in {"Admitted", "Rejected"}

\* authorise.handle invoked the lookup for r
LookedUp(r) == \E i \in 1..Len(log[r]) : log[r][i] = "getAccessToken"

\* the lookup of r has called back
Returned(r) == LookedUp(r) /\ Done(r)

\* the lookup of r has called back without error, with a record
ReturnedRecord(r) ==
    /\ Returned(r)
    /\ lookupResult[r].err = Null
    /\ lookupResult[r].token # Null

\* r ended rejected, with the single error e, without any lookup
RejectedInExtraction(r, e) ==
    /\ pc[r] = "Rejected"
    /\ nexts[r] = <<e>>
    /\ log[r] = <<"next">>
    /\ bearerToken[r] = Undefined

\* r ended rejected after its lookup, with the single error e
RejectedInValidation(r, e) ==
    /\ pc[r] = "Rejected"
    /\ nexts[r] = <<e>>
    /\ log[r] = <<"getAccessToken", "next">>

\* r was admitted: next() once, after req.user was set to u
AdmittedAs(r, u) ==
    /\ pc[r] = "Admitted"
    /\ nexts[r] = <<Null>>
    /\ req[r].user = u
    /\ log[r] = <<"getAccessToken", "req.user", "next">>

\* the number of carriers of q that are defined
CarriersDefined(q) ==
    Cardinality({c \in {"header", "query", "body"} : q[c] # Undefined})

-----------------------------------------------------------------------------
(* C1 *)

\* C1 (as stated): whenever the lookup returned, without error, a record with
\* no expiry or with expires <= now, the request is rejected with
\* invalid_grant "The access token provided has expired."
C1_ExpiredOrEqualRejected ==
    \A r \in Requests :
        (/\ ReturnedRecord(r)
         /\ \/ lookupResult[r].token.expires = NoExpires
            \/ lookupResult[r].token.expires <= now)
        => RejectedInValidation(r,
               [error |-> "invalid_grant",
                description |-> "The access token provided has expired.",
                cause |-> Null])

\* C1 (amended): whenever the lookup returned, without error, a record with no
\* expiry or with expires strictly earlier than now, the request is rejected
\* with invalid_grant "The access token provided has expired."; a record with
\* expires = now is admitted, with req.user set from it.
C1_ExpiredRejected ==
    \A r \in Requests :
        /\ (/\ ReturnedRecord(r)
            /\ \/ lookupResult[r].token.expires = NoExpires
               \/ lookupResult[r].token.expires < now)
           => RejectedInValidation(r,
                  [error |-> "invalid_grant",
                   description |-> "The access token provided has expired.",
                   cause |-> Null])
        /\ (/\ ReturnedRecord(r)
            /\ lookupResult[r].token.expires = now)
           => AdmittedAs(r, [id |-> lookupResult[r].token.user_id])

\* a lookup returned a record whose expiry is earlier than now, and the request ended
C1_Witness ==
    \E r \in Requests :
        /\ ReturnedRecord(r)
        /\ lookupResult[r].token.expires # NoExpires
        /\ lookupResult[r].token.expires < now
        /\ pc[r] = "Rejected"

-----------------------------------------------------------------------------
(* C2 *)

\* C2: whenever a request with exactly one carrier passed extraction and its
\* lookup returned, without error, a record with expires > now, next was
\* called once, with no error, after req.user was set to {id: user_id of
\* that record}.
C2_ValidAdmitted ==
    \A r \in Requests :
        (/\ ReturnedRecord(r)
         /\ CarriersDefined(entry[r]) = 1
         /\ lookupResult[r].token.expires # NoExpires
         /\ lookupResult[r].token.expires > now)
        => AdmittedAs(r, [id |-> lookupResult[r].token.user_id])

\* a lookup returned a record that expires after now, and the request ended
C2_Witness ==
    \E r \in Requests :
        /\ ReturnedRecord(r)
        /\ CarriersDefined(entry[r]) = 1
        /\ lookupResult[r].token.expires > now
        /\ Done(r)

-----------------------------------------------------------------------------
(* C3 *)

\* the header syntax of the specification: the literal "Bearer", exactly one
\* space, then one or more non-whitespace characters and nothing else
WellFormedHeader(h) ==
    /\ Len(h) >= 8
    /\ SubSeq(h, 1, 6) = <<"B", "e", "a", "r", "e", "r">>
    /\ h[7] = " "
    /\ \A i \in 8..Len(h) : h[i] \notin {" ", "\t"}

\* C3 (as stated): whenever the Authorization header is the only carrier and
\* its value is not "Bearer", one space, one or more non-whitespace characters,
\* the request is rejected with invalid_request "Malformed auth header" and
\* the lookup is not invoked.
C3_MalformedHeaderRejected ==
    \A r \in Requests :
        (/\ pc[r] # "Start"
         /\ entry[r].header # Undefined
         /\ entry[r].query = Undefined
         /\ entry[r].body = Undefined
         /\ ~WellFormedHeader(entry[r].header))
        => RejectedInExtraction(r,
               [error |-> "invalid_request",
                description |-> "Malformed auth header",
                cause |-> Null])

-----------------------------------------------------------------------------
(* C4 *)

\* C4: whenever two or more of the three carriers are present, the request is
\* rejected with invalid_request "Only one method may be used to authenticate
\* at a time (Auth header, GET or POST)." and the lookup is not invoked,
\* whatever the header's form, the method and the tokens.
C4_SeveralCarriersRejected ==
    \A r \in Requests :
        (pc[r] # "Start" /\ CarriersDefined(entry[r]) >= 2)
        => RejectedInExtraction(r,
               [error |-> "invalid_request",
                description |->
                    "Only one method may be used to authenticate at a time (Auth header, GET or POST).",
                cause |-> Null])

\* a request with a malformed header and a body token on a non-POST method ended
C4_Witness ==
    \E r \in Requests :
        /\ Done(r)
        /\ entry[r].header # Undefined
        /\ ~WellFormedHeader(entry[r].header)
        /\ entry[r].body \notin {Undefined, <<>>}
        /\ entry[r].method # "POST"

-----------------------------------------------------------------------------
(* C5 *)

\* C5: whenever all three carriers are absent, the request is rejected with
\* invalid_request "The access token was not found" and the lookup is not
\* invoked, for every method.
C5_NoCarrierRejected ==
    \A r \in Requests :
        (pc[r] # "Start" /\ CarriersDefined(entry[r]) = 0)
        => RejectedInExtraction(r,
               [error |-> "invalid_request",
                description |-> "The access token was not found",
                cause |-> Null])

\* a POST request without any carrier ended
C5_Witness ==
    \E r \in Requests :
        /\ Done(r)
        /\ CarriersDefined(entry[r]) = 0
        /\ entry[r].method = "POST"

-----------------------------------------------------------------------------
(* C6 *)

\* C6 (as stated): whenever the body parameter is the only carrier and the
\* method is not POST, the request is rejected with invalid_request "When
\* putting the token in the body, the method must be POST." and the lookup is
\* not invoked, whatever the body token's value.
C6_BodyNeedsPost ==
    \A r \in Requests :
        (/\ pc[r] # "Start"
         /\ entry[r].header = Undefined
         /\ entry[r].query = Undefined
         /\ entry[r].body # Undefined
         /\ entry[r].method # "POST")
        => RejectedInExtraction(r,
               [error |-> "invalid_request",
                description |->
                    "When putting the token in the body, the method must be POST.",
                cause |-> Null])

-----------------------------------------------------------------------------
(* C7 *)

\* C7: whenever a request passed extraction and its lookup returned, without
\* error, no record, the request is rejected with invalid_grant "The access
\* token provided is invalid." and req.user is as it was at entry.
C7_UnknownTokenRejected ==
    \A r \in Requests :
        (/\ Returned(r)
         /\ lookupResult[r].err = Null
         /\ lookupResult[r].token = Null)
        => /\ RejectedInValidation(r,
                  [error |-> "invalid_grant",
                   description |-> "The access token provided is invalid.",
                   cause |-> Null])
           /\ req[r].user = entry[r].user

\* a lookup returned no record and no error, for a token that was sent
C7_Witness ==
    \E r \in Requests :
        /\ Returned(r)
        /\ lookupResult[r].err = Null
        /\ lookupResult[r].token = Null
        /\ bearerToken[r] \notin {Undefined, <<>>}

-----------------------------------------------------------------------------
(* C8 *)

\* C8: whenever the lookup called back with an error, the request is rejected
\* with a server_error that has no description and the lookup's error as its
\* cause, and req.user is as it was at entry, whatever record came with the
\* error.
C8_LookupErrorWrapped ==
    \A r \in Requests :
        (Returned(r) /\ lookupResult[r].err # Null)
        => /\ RejectedInValidation(r,
                  [error |-> "server_error",
                   description |-> False,
                   cause |-> lookupResult[r].err])
           /\ req[r].user = entry[r].user

\* a lookup called back with an error and a record that has not expired
C8_Witness ==
    \E r \in Requests :
        /\ Returned(r)
        /\ lookupResult[r].err # Null
        /\ lookupResult[r].token # Null
        /\ lookupResult[r].token.expires > now

-----------------------------------------------------------------------------
(* C9 *)

\* next was called at most once for each request, and exactly once for a
\* request that has ended: with no error for an admitted one, with one
\* OAuth2Error for a rejected one
C9_OutcomeOnce ==
    \A r \in Requests :
        /\ Len(nexts[r]) <= 1
        /\ Done(r) <=> Len(nexts[r]) = 1
        /\ pc[r] = "Admitted" => nexts[r] = <<Null>>
        /\ pc[r] = "Rejected" =>
              /\ nexts[r] # <<Null>>
              /\ nexts[r][1].error \in {"invalid_request", "invalid_grant", "server_error"}

\* C9: when the lookup calls back once, next is called exactly once for every
\* request, either with no error (Admitted) or with one OAuth2Error
\* (Rejected), never twice, and every request eventually ends Admitted or
\* Rejected.
C9_ExactlyOneOutcome ==
    /\ []C9_OutcomeOnce
    /\ <>(\A r \in Requests : Done(r))

\* a request was admitted after its lookup called back
C9_Witness ==
    \E r \in Requests :
        /\ Returned(r)
        /\ Len(nexts[r]) = 1
        /\ pc[r] = "Admitted"

-----------------------------------------------------------------------------
(* C10 *)

\* C10 (as stated): once the host has cancelled a request whose lookup is
\* pending, next is never called for it and req.user is never set, even if
\* the lookup calls back later.
C10_NoOutcomeAfterCancel ==
    \A r \in Requests :
        cancelled[r] => (nexts[r] = <<>> /\ req[r].user = entry[r].user)

-----------------------------------------------------------------------------
(* C11 *)

\* the calls of next and the req.user that authorise.handle produces for the
\* request object q processed alone at time t, its lookup reporting err
AloneOutcome(q, err, t) ==
    LET got == getBearerToken(q)
    IN  IF TruthyObj(got.err)
        THEN [nexts |-> <<got.err>>, user |-> q.user]
        ELSE LET v == getAccessTokenCallback(err, StoredToken(got.bearerToken), q.user, t)
             IN  [nexts |-> v.nexts, user |-> v.user]

\* C11: with several requests in flight on one instance, in any interleaving,
\* each request's outcome and attached identity are those of that request
\* processed alone against the same store, and the token looked up for it is
\* its own.
C11_OutcomeAsAlone ==
    \A r \in Requests :
        /\ LookedUp(r) => bearerToken[r] = getBearerToken(entry[r]).bearerToken
        /\ Done(r) =>
              [nexts |-> nexts[r], user |-> req[r].user]
                  = AloneOutcome(entry[r], lookupResult[r].err, now)

\* two requests were admitted with different identities
C11_Witness ==
    \E r1, r2 \in Requests :
        /\ pc[r1] = "Admitted"
        /\ pc[r2] = "Admitted"
        /\ req[r1].user # req[r2].user

-----------------------------------------------------------------------------
(* C12 *)

\* C12 (as stated): a request is judged against this.now as it was when the
\* request entered authorise.handle: a record returned without error that has
\* an expiry is admitted exactly when that expiry is not earlier than the
\* time reference at entry, also when this.now changed while the lookup was
\* pending.
C12_CutoffAtEntry ==
    \A r \in Requests :
        (ReturnedRecord(r) /\ lookupResult[r].token.expires # NoExpires)
        => (pc[r] = "Admitted" <=> lookupResult[r].token.expires >= nowAtEntry[r])

-----------------------------------------------------------------------------
(* C13 *)

\* C13: when authorise.handle has run twice in sequence on the same request
\* object, with this.now and the store unchanged (the lookup called back with
\* the same result), the second run ends as the first did: the same
\* Admitted/Rejected, the same argument of next and the same req.user.
C13_Idempotent ==
    \A r \in Requests :
        (/\ Done(r)
         /\ runs[r] # <<>>
         /\ runs[r][Len(runs[r])].lookupResult = lookupResult[r])
        => /\ runs[r][Len(runs[r])].pc = pc[r]
           /\ runs[r][Len(runs[r])].nexts = nexts[r]
           /\ runs[r][Len(runs[r])].user = req[r].user

\* a second run ended admitted on a request whose first run had set req.user
C13_Witness ==
    \E r \in Requests :
        /\ runs[r] # <<>>
        /\ runs[r][1].pc = "Admitted"
        /\ runs[r][1].user # Null
        /\ pc[r] = "Admitted"
        /\ entry[r].user = runs[r][1].user

-----------------------------------------------------------------------------
(* C14 *)

\* the only carrier of q that is defined holds the empty string
OnlyCarrierEmpty(q) ==
    /\ CarriersDefined(q) = 1
    /\ \A c \in {"header", "query", "body"} : q[c] \in {Undefined, <<>>}

\* C14 (as stated): a request whose only defined carrier holds the empty
\* string is rejected with invalid_request without a lookup, and whenever
\* extraction succeeds the token handed on is a non-empty string.
C14_TokenNeverEmpty ==
    \A r \in Requests :
        /\ (pc[r] # "Start" /\ OnlyCarrierEmpty(entry[r]))
           => /\ pc[r] = "Rejected"
              /\ nexts[r][1].error = "invalid_request"
              /\ ~LookedUp(r)
        /\ LookedUp(r) => bearerToken[r] \notin {Undefined, <<>>}

-----------------------------------------------------------------------------
(* C15 *)

\* C15: when the header is the only carrier and is "Bearer " followed by a
\* token of non-whitespace characters, the lookup is invoked with exactly the
\* text after "Bearer "; when the query parameter is the only carrier, the
\* lookup is invoked with its value unchanged, for every method.
C15_TokenHandedOnUnchanged ==
    \A r \in Requests :
        /\ (/\ pc[r] # "Start"
            /\ entry[r].header # Undefined
            /\ entry[r].query = Undefined
            /\ entry[r].body = Undefined
            /\ WellFormedHeader(entry[r].header))
           => /\ LookedUp(r)
              /\ bearerToken[r] = SubSeq(entry[r].header, 8, Len(entry[r].header))
        /\ (/\ pc[r] # "Start"
            /\ entry[r].header = Undefined
            /\ entry[r].query # Undefined
            /\ entry[r].body = Undefined)
           => /\ LookedUp(r)
              /\ bearerToken[r] = entry[r].query

\* a lookup was invoked for a header token of three characters
C15_Witness ==
    \E r \in Requests :
        /\ LookedUp(r)
        /\ entry[r].query = Undefined
        /\ entry[r].body = Undefined
        /\ entry[r].header # Undefined
        /\ WellFormedHeader(entry[r].header)
        /\ Len(entry[r].header) = 10
        /\ Len(bearerToken[r]) = 3

-----------------------------------------------------------------------------
(* C16 *)

\* C16: within one request the lookup is invoked at most once, only after
\* extraction succeeded and with the token extraction produced; no call of
\* next and no write of req.user happens while the lookup is pending; a
\* request rejected in extraction causes no lookup.
C16_LookupOrder ==
    \A r \in Requests :
        /\ log[r] \in { <<>>, <<"next">>, <<"getAccessToken">>,
                        <<"getAccessToken", "next">>,
                        <<"getAccessToken", "req.user", "next">> }
        /\ LookedUp(r) =>
              /\ getBearerToken(entry[r]).err = Null
              /\ bearerToken[r] = getBearerToken(entry[r]).bearerToken
        /\ (pc[r] # "Start" /\ getBearerToken(entry[r]).err # Null) =>
              (log[r] = <<"next">> /\ pc[r] = "Rejected")
        /\ pc[r] = "Validating" =>
              (log[r] = <<"getAccessToken">> /\ nexts[r] = <<>>
                  /\ req[r].user = entry[r].user)
        /\ (LookedUp(r) /\ nexts[r] # <<>>) => lookupResult[r] \in LookupOutcomes(bearerToken[r])

\* a request was rejected after its lookup reported an error, with one lookup made
C16_Witness ==
    \E r \in Requests :
        /\ log[r] = <<"getAccessToken", "next">>
        /\ lookupResult[r].err # Null
        /\ pc[r] = "Rejected"

-----------------------------------------------------------------------------
(* C17 *)

\* C17: authorise.handle leaves the request's header, query, body and method
\* as they were at entry, and req.user too unless the request is admitted:
\* on every rejected path, and while the lookup is pending, req.user has the
\* value it had before the call.
C17_Frame ==
    \A r \in Requests :
        /\ req[r].header = entry[r].header
        /\ req[r].query = entry[r].query
        /\ req[r].body = entry[r].body
        /\ req[r].method = entry[r].method
        /\ pc[r] # "Admitted" => req[r].user = entry[r].user
        /\ pc[r] # "Admitted" => \A i \in 1..Len(log[r]) : log[r][i] # "req.user"

\* a request that came with a req.user was rejected for an expired record
C17_Witness ==
    \E r \in Requests :
        /\ pc[r] = "Rejected"
        /\ ReturnedRecord(r)
        /\ entry[r].user # Null
        /\ nexts[r][1].error = "invalid_grant"

-----------------------------------------------------------------------------
(* C18 *)

====
